---- MODULE Spec2Model ----
(***************************************************************************)
(* Model of the DRI2 buffer / swap engine of xf86-video-armsoc             *)
(* (src/armsoc_dri2.c): buffer records with their pixmap ring, reference   *)
(* counting, the lazy framebuffer attachment, ScheduleSwap and the         *)
(* completion routine ARMSOCDRI2SwapComplete.                              *)
(*                                                                         *)
(* One drawable is modelled.  Pixmaps and buffer objects (bo) are numbered *)
(* in allocation order; a bo's export name is its number.  0 is NULL.      *)
(***************************************************************************)
EXTENDS Integers, Sequences, FiniteSets, TLC

\* ---------------------------------------------------------------- bounds
\* pixmaps that can ever be created (createpix returns NULL afterwards)
MaxPix == 4
\* buffer records CreateBuffer can ever hand out
MaxBufs == 2
RefrontBufs == 3
\* swap commands ScheduleSwap can ever create
MaxCmds == 2
\* CRTCs a page flip can be queued on
MaxCrtc == 2
\* resolution changes
MaxResize == 1
\* swap commands of the attach-policy scenario (SpecFb)
FbCmds == 1
\* ReuseBufferNotify calls the attach probe tells apart in one mapped period
MaxSeen == 2
\* swap commands of the ring scenario (SpecRing): one lap of a 3-slot ring
RingCmds == 3

\* the pixmap behind the drawable (draw2pix(pDraw)), present from the start
WinPix == 1

\* surface sizes the drawable can take (width, height)
Sizes == { <<1, 1>>, <<2, 1>>, <<1, 2>> }

\* driNumBufs values of the configuration (double and triple buffering)
DriNumBufs == {2, 3}

VARIABLES
    cfg,            \* pARMSOC: driNumBufs, use_page_flip_events, NoFlip
    draw,           \* the drawable: alive, flipCapable, width, height
    pix,            \* pixmaps: state, refcnt, bo
    bo,             \* buffer objects: ref, fb, w, h
    nextPix,        \* number of pixmaps created so far
    bufs,           \* struct ARMSOCDRI2BufferRec, by buffer id
    nextBuf,        \* number of buffer records created so far
    coreBufs,       \* buffers the DRI2 core still holds its reference on
    cmds,           \* struct ARMSOCDRISwapCmd, by command id
    nextCmd,        \* number of commands created so far
    pending_flips,  \* pARMSOC->pending_flips
    evts,           \* flip events the kernel still owes, per command
    nResize,        \* resolution changes so far
    fault,          \* "uaf": freed memory was accessed; "assert": an assert failed
    screen,         \* "open"; "waiting": CloseScreen is in its wait loop;
                    \* "closed": DRI2CloseScreen was called
    log,            \* per command: what was observed on its path
    probe,          \* what else is observed: "none", or "fb" (attach attempts
                    \* and the results of CreateBuffer)
    result,         \* while probe = "fb": what the CreateBuffer call of the
                    \* last step was asked and returned
    seen            \* per buffer, while probe = "fb": ReuseBufferNotify calls
                    \* (counted up to MaxSeen) and armsoc_bo_add_fb calls made
                    \* for it since flipCapable last changed

vars == << cfg, draw, pix, bo, nextPix, bufs, nextBuf, coreBufs, cmds,
           nextCmd, pending_flips, evts, nResize, fault, screen, log, probe,
           result, seen >>

PixIds == 1..MaxPix
BufIds == 1..(IF RefrontBufs > MaxBufs THEN RefrontBufs ELSE MaxBufs)
\* command ids: Spec creates MaxCmds of them, SpecRing RingCmds
CmdIds == 1..(IF RingCmds > MaxCmds THEN RingCmds ELSE MaxCmds)

NoResult == [ret |-> "none", attachment |-> "none", outcome |-> "none"]

\* ------------------------------------------------------------ the heap
\* The handlers run to completion on one thread; each is a function from
\* heap to heap, and an action commits the heap its handler returns.
St == [ cfg |-> cfg, draw |-> draw, pix |-> pix, bo |-> bo,
        nextPix |-> nextPix, bufs |-> bufs, nextBuf |-> nextBuf,
        coreBufs |-> coreBufs, cmds |-> cmds, nextCmd |-> nextCmd,
        pending_flips |-> pending_flips,
        evts |-> evts, nResize |-> nResize, fault |-> fault, log |-> log,
        probe |-> probe, seen |-> seen, screen |-> screen,
        result |-> NoResult,
        \* armsoc_bo_add_fb calls the running handler has made (not kept)
        fbAdds |-> 0,
        \* createpix calls the running handler has made (not kept)
        allocs |-> 0 ]

Commit(s) ==
    /\ cfg' = s.cfg
    /\ draw' = s.draw
    /\ pix' = s.pix
    /\ bo' = s.bo
    /\ nextPix' = s.nextPix
    /\ bufs' = s.bufs
    /\ nextBuf' = s.nextBuf
    /\ coreBufs' = s.coreBufs
    /\ cmds' = s.cmds
    /\ nextCmd' = s.nextCmd
    /\ pending_flips' = s.pending_flips
    /\ evts' = s.evts
    /\ nResize' = s.nResize
    /\ fault' = s.fault
    /\ log' = s.log
    /\ probe' = s.probe
    /\ screen' = s.screen
    /\ result' = s.result
    /\ seen' = s.seen

GoneDraw == [alive |-> FALSE, flipCapable |-> FALSE, width |-> 0, height |-> 0]
NoPix == [state |-> "none", refcnt |-> 0, bo |-> 0]
NoBo  == [ref |-> 0, fb |-> FALSE, w |-> 0, h |-> 0]
NoBuf == [state |-> "none", attachment |-> "none", pPixmaps |-> << >>,
          currentPixmap |-> 0, numPixmaps |-> 0, refcnt |-> 0,
          attempted_fb_alloc |-> FALSE, name |-> 0,
          \* history: nextBuffer calls that moved currentPixmap
          advances |-> 0]
FreedBuf == [NoBuf EXCEPT !.state = "freed"]
NoCmd == [state |-> "none", type |-> "none", draw_id |-> 0, pSrcBuffer |-> 0,
          pDstBuffer |-> 0, swapCount |-> 0, flags |-> {}]
FreedCmd == [NoCmd EXCEPT !.state = "freed"]
NoLog == [kind |-> "none", issued |-> FALSE, ret |-> 0, queued |-> 0,
          flags |-> {},
          flipInputs |-> << >>, returned |-> "none", inFlight |-> FALSE,
          events |-> 0, bodyAt |-> -1, body |-> 0, notified |-> 0,
          notifiedType |-> "none", lookup |-> "none",
          exchanged |-> 0, advanced |-> 0, published |-> 0, scanout |-> 0, copied |-> 0,
          copyCalls |-> 0, scratchGC |-> FALSE,
          released |-> 0, unrefd |-> << >>, refd |-> << >>,
          preRef |-> << >>, postRef |-> << >>, others |-> << 0, 0 >>,
          before |-> << >>, after |-> << >>, flipsBefore |-> 0,
          flipsAfter |-> 0, flipsAtSched |-> 0, freedAtDone |-> {},
          allocs |-> 0]

PastLog == [NoLog EXCEPT !.kind = "past"]

NoneSeen == [reuses |-> 0, attaches |-> 0]

\* sequencing: F applied to the result v of the step before it
Then(v, F(_)) == CHOOSE r \in { F(x) : x \in {v} } : TRUE

\* ------------------------------------------------ external collaborators
\* armsoc_bo_name(bo): the export name of a buffer object
armsoc_bo_name(b) == b

\* armsoc_bo_get_fb(bo): the framebuffer id, 0 when none is attached
armsoc_bo_get_fb(s, b) == IF s.bo[b].fb THEN b ELSE 0

\* armsoc_bo_add_fb(bo): attaches a framebuffer unless the kernel refuses
armsoc_bo_add_fb(s, b, ok) ==
    IF ok THEN [s EXCEPT !.bo[b].fb = TRUE, !.fbAdds = @ + 1]
    ELSE [s EXCEPT !.fbAdds = @ + 1]

\* armsoc_bo_rm_fb(bo)
armsoc_bo_rm_fb(s, b) == [s EXCEPT !.bo[b].fb = FALSE]

armsoc_bo_reference(s, b) == [s EXCEPT !.bo[b].ref = @ + 1]

\* ARMSOCPixmapBo(pPixmap): the bo behind a pixmap
ARMSOCPixmapBo(s, p) == s.pix[p].bo

\* the allocator takes back what was freed: a bo without references is
\* cleared, and the most recent pixmap number is handed out again once
\* neither that pixmap nor the bo of that number is in use
Reclaim(s) ==
    Then([s EXCEPT !.bo = [b \in PixIds |->
                      IF s.bo[b].ref = 0 THEN NoBo ELSE s.bo[b]]],
         LAMBDA s1 :
            IF /\ s1.nextPix > WinPix
               /\ s1.pix[s1.nextPix].state = "destroyed"
               /\ s1.bo[s1.nextPix] = NoBo
            THEN [s1 EXCEPT !.pix[s1.nextPix] = NoPix, !.nextPix = @ - 1]
            ELSE s1)

armsoc_bo_unreference(s, b) == Then([s EXCEPT !.bo[b].ref = @ - 1], Reclaim)

\* pScreen->DestroyPixmap: drops one pixmap reference; the last one frees
\* the pixmap and drops its reference on the bo
DestroyPixmap(s, p) ==
    IF s.pix[p].refcnt - 1 > 0
    THEN [s EXCEPT !.pix[p].refcnt = @ - 1]
    ELSE Then([s EXCEPT !.pix[p] = [state |-> "destroyed", refcnt |-> 0,
                                    bo |-> 0],
                        !.bo[s.pix[p].bo].ref = @ - 1],
              Reclaim)

\* ARMSOCPixmapExchange(a, b): the two pixmaps trade their buffer objects
ARMSOCPixmapExchange(s, a, b) ==
    [s EXCEPT !.pix[a].bo = s.pix[b].bo, !.pix[b].bo = s.pix[a].bo]

\* drmmode_page_flip: queues a flip on every enabled CRTC; k were queued,
\* and the result is -(k+1) if any queueing failed, k otherwise
drmmode_page_flip(k, failed) == IF failed THEN -(k + 1) ELSE k

\* events the kernel will deliver for the k queued flips
QueuedEvents(s, k) == IF s.cfg.use_page_flip_events THEN k ELSE 0

\* ------------------------------------------------------- small helpers
\* draw2pix(pDraw) for the modelled drawable
draw2pix(s) == WinPix

\* canflip(pDraw)
canflip(s) ==
    IF s.cfg.NoFlip THEN FALSE ELSE s.draw.flipCapable

\* createpix(pDraw): a new pixmap of the drawable's size with its own bo,
\* or NULL (0).  Returns the heap and the pixmap.
createpix(s, ok) ==
    IF ok /\ s.nextPix < MaxPix
    THEN [st |-> [s EXCEPT !.allocs = @ + 1,
                           !.nextPix = @ + 1,
                           !.pix[s.nextPix + 1] =
                               [state |-> "live", refcnt |-> 1,
                                bo |-> s.nextPix + 1],
                           !.bo[s.nextPix + 1] =
                               [ref |-> 1, fb |-> FALSE,
                                w |-> s.draw.width, h |-> s.draw.height]],
          pPixmap |-> s.nextPix + 1]
    ELSE [st |-> [s EXCEPT !.allocs = @ + 1], pPixmap |-> 0]

\* capacity of the pPixmaps array CreateBuffer allocates
RingCap(s, attachment) ==
    IF attachment = "BackLeft" /\ s.cfg.driNumBufs > 2
    THEN s.cfg.driNumBufs - 1 ELSE 1

\* boFromBuffer(buf)
boFromBuffer(s, b) ==
    s.pix[s.bufs[b].pPixmaps[s.bufs[b].currentPixmap]].bo

\* dri2draw(pDraw, buf) followed by draw2pix: the pixmap a buffer draws to
dri2drawPix(s, b) ==
    IF s.bufs[b].attachment = "FrontLeft"
    THEN draw2pix(s)
    ELSE s.bufs[b].pPixmaps[s.bufs[b].currentPixmap]

\* ------------------------------------------------- buffer record lifecycle
\* the record CreateBuffer fills in around pPixmap
NewBuf(s, attachment, pPixmap) ==
    [state |-> "live", attachment |-> attachment,
     pPixmaps |-> [i \in 0..(RingCap(s, attachment) - 1) |->
                      IF i = 0 THEN pPixmap ELSE 0],
     currentPixmap |-> 0, numPixmaps |-> RingCap(s, attachment),
     refcnt |-> 1, attempted_fb_alloc |-> FALSE,
     name |-> armsoc_bo_name(ARMSOCPixmapBo(s, pPixmap)),
     advances |-> 0]

\* a failure path that cleans nothing up
CreateFail_Leak(s, attachment, pPixmap) == s

\* the fail: label of CreateBuffer
CreateFail(s, attachment, pPixmap) ==
    IF pPixmap # 0
    THEN IF attachment # "FrontLeft"
         THEN DestroyPixmap(s, pPixmap)
         ELSE [s EXCEPT !.pix[pPixmap].refcnt = @ - 1]
    ELSE s

\* ARMSOCDRI2CreateBuffer.  outcome names the allocation that fails, if any:
\* "nobuf" (the calloc of the record, before anything else is done),
\* "nopix" (createpix), "noarr" (the pPixmaps array), "nobo" (the pixmap has
\* no bo); fbok is the result of armsoc_bo_add_fb.  On failure the result is
\* NULL and no record exists; on success the record is handed to the core.
ARMSOCDRI2CreateBuffer(s, attachment, outcome, fbok) ==
    IF outcome = "nobuf" THEN s
    ELSE
    Then(IF attachment = "FrontLeft"
         THEN [st |-> [s EXCEPT !.pix[draw2pix(s)].refcnt = @ + 1],
               pPixmap |-> draw2pix(s)]
         ELSE createpix(s, outcome # "nopix"),
         LAMBDA made :
            IF made.pPixmap = 0 \/ outcome \in {"noarr", "nobo"}
            THEN CreateFail(made.st, attachment, made.pPixmap)
            ELSE Then([made.st EXCEPT
                          !.bufs[s.nextBuf + 1] =
                              NewBuf(made.st, attachment, made.pPixmap),
                          !.nextBuf = @ + 1,
                          !.coreBufs = @ \cup {s.nextBuf + 1}],
                      LAMBDA s2 :
                         IF canflip(s2) /\ attachment # "FrontLeft"
                         THEN [armsoc_bo_add_fb(s2,
                                   ARMSOCPixmapBo(s2, made.pPixmap), fbok)
                                 EXCEPT !.bufs[s.nextBuf + 1].attempted_fb_alloc = TRUE]
                         ELSE s2))

\* a transition test that retries whatever was tried before
ShouldAttach_Retry(flippable, attempted_fb_alloc, fb_id) ==
    flippable /\ fb_id = 0

\* flippable && !buf->attempted_fb_alloc && fb_id == 0
ShouldAttach(flippable, attempted_fb_alloc, fb_id) ==
    flippable /\ ~attempted_fb_alloc /\ fb_id = 0

\* ARMSOCDRI2ReuseBufferNotify
ARMSOCDRI2ReuseBufferNotify(s, b, fbok) ==
    IF s.bufs[b].attachment = "FrontLeft" THEN s
    ELSE LET theBo == ARMSOCPixmapBo(s, s.bufs[b].pPixmaps[0])
             fb_id == armsoc_bo_get_fb(s, theBo)
             flippable == canflip(s)
         IN  Then(IF ShouldAttach(flippable, s.bufs[b].attempted_fb_alloc, fb_id)
                  THEN [armsoc_bo_add_fb(s, theBo, fbok)
                            EXCEPT !.bufs[b].attempted_fb_alloc = TRUE]
                  ELSE s,
                  LAMBDA s1 :
                     IF ~flippable /\ fb_id # 0
                     THEN armsoc_bo_rm_fb(
                              [s1 EXCEPT !.bufs[b].attempted_fb_alloc = FALSE],
                              theBo)
                     ELSE s1)

\* the loop of ARMSOCDRI2DestroyBuffer over pPixmaps[i], i < numBuffers,
\* up to the first NULL entry
RECURSIVE DestroyLoop(_, _, _, _)
DestroyLoop(s, b, i, numBuffers) ==
    IF i < numBuffers /\ s.bufs[b].pPixmaps[i] # 0
    THEN Then(DestroyPixmap(s, s.bufs[b].pPixmaps[i]),
              LAMBDA s1 : DestroyLoop(s1, b, i + 1, numBuffers))
    ELSE s

\* a DestroyBuffer that frees the record whatever the count
StillReferenced_NoCount(refcnt) == FALSE

\* --buf->refcnt > 0: other holders remain
StillReferenced(refcnt) == refcnt - 1 > 0

\* a destroy loop that stops after the first slot
NumBuffers_One(attachment, driNumBufs) == 1

\* numBuffers of ARMSOCDRI2DestroyBuffer: the slots its loop may visit
NumBuffers(attachment, driNumBufs) ==
    IF attachment = "BackLeft" THEN driNumBufs - 1 ELSE 1

\* ARMSOCDRI2DestroyBuffer: drops one reference; the last one destroys the
\* pixmaps of the ring and frees the record.  Called on a freed record it
\* reads freed memory.
ARMSOCDRI2DestroyBuffer(s, b) ==
    IF s.bufs[b].state # "live" THEN [s EXCEPT !.fault = "uaf"]
    ELSE IF StillReferenced(s.bufs[b].refcnt)
    THEN [s EXCEPT !.bufs[b].refcnt = @ - 1]
    ELSE Then([s EXCEPT !.bufs[b].refcnt = @ - 1],
         LAMBDA s0 :
         Then(DestroyLoop(s0, b, 0,
                  NumBuffers(s0.bufs[b].attachment, s0.cfg.driNumBufs)),
         LAMBDA s1 : [s1 EXCEPT !.bufs[b] = FreedBuf]))

\* a ReferenceBuffer that takes no reference
ARMSOCDRI2ReferenceBuffer_NoRef(s, b) == s

\* ARMSOCDRI2ReferenceBuffer
ARMSOCDRI2ReferenceBuffer(s, b) == [s EXCEPT !.bufs[b].refcnt = @ + 1]

\* ------------------------------------------------------ exchange and ring
\* exchangebufs(pDraw, a, b)
exchangebufs(s, a, b) ==
    [ARMSOCPixmapExchange(s, dri2drawPix(s, a), dri2drawPix(s, b))
        EXCEPT !.bufs[a].name = s.bufs[b].name,
               !.bufs[b].name = s.bufs[a].name]

\* allocNextBuffer(pDraw, ppPixmap, name).  outcome: "ok", or the step that
\* fails: "nopix" (createpix), "nobo" (no bo behind the pixmap), "nofb"
\* (armsoc_bo_add_fb).  Returns the heap, success, the pixmap and the name.
allocNextBuffer(s, outcome) ==
    Then(createpix(s, outcome # "nopix"),
         LAMBDA made :
            IF made.pPixmap = 0
            THEN [st |-> made.st, ok |-> FALSE, pPixmap |-> 0, name |-> 0]
            ELSE IF \/ outcome = "nobo"
                    \/ /\ armsoc_bo_get_fb(made.st,
                              ARMSOCPixmapBo(made.st, made.pPixmap)) = 0
                       /\ outcome = "nofb"
            THEN [st |-> DestroyPixmap(made.st, made.pPixmap),
                  ok |-> FALSE, pPixmap |-> 0, name |-> 0]
            ELSE [st |-> IF armsoc_bo_get_fb(made.st,
                                ARMSOCPixmapBo(made.st, made.pPixmap)) = 0
                         THEN armsoc_bo_add_fb(made.st,
                                  ARMSOCPixmapBo(made.st, made.pPixmap), TRUE)
                         ELSE made.st,
                  ok |-> TRUE, pPixmap |-> made.pPixmap,
                  name |-> armsoc_bo_name(ARMSOCPixmapBo(made.st, made.pPixmap))])

\* an advance that stops at the last slot instead of wrapping
NextSlot_Stuck(currentPixmap, numPixmaps) ==
    IF currentPixmap + 1 < numPixmaps THEN currentPixmap + 1 ELSE currentPixmap

\* backBuf->currentPixmap++; backBuf->currentPixmap %= backBuf->numPixmaps
NextSlot(currentPixmap, numPixmaps) == (currentPixmap + 1) % numPixmaps

\* a fallback to the first slot
FallBack_ToFirst(currentPixmap) == 0

\* backBuf->currentPixmap-- after a failed allocation
FallBack(currentPixmap) == currentPixmap - 1

\* a fallback that forgets the slot that is still in use
ShrunkNumPixmaps_OffByOne(currentPixmap) == currentPixmap

\* backBuf->numPixmaps = backBuf->currentPixmap+1 after the fallback
ShrunkNumPixmaps(currentPixmap) == currentPixmap + 1

\* a ring that is used for double buffering as well
UsesRing_Always(driNumBufs) == TRUE

\* nextBuffer returns at once unless pARMSOC->driNumBufs > 2
UsesRing(driNumBufs) == ~(driNumBufs <= 2)

\* nextBuffer(pDraw, backBuf)
nextBuffer(s, b, outcome) ==
    IF ~UsesRing(s.cfg.driNumBufs) THEN s
    ELSE Then([s EXCEPT !.bufs[b].currentPixmap = NextSlot(@, s.bufs[b].numPixmaps),
                        !.bufs[b].advances = @ + 1],
         LAMBDA s1 :
            IF s1.bufs[b].pPixmaps[s1.bufs[b].currentPixmap] # 0
            THEN [s1 EXCEPT !.bufs[b].name = armsoc_bo_name(boFromBuffer(s1, b))]
            ELSE Then(allocNextBuffer(s1, outcome),
                 LAMBDA r :
                    IF r.ok
                    THEN [r.st EXCEPT
                             !.bufs[b].pPixmaps[s1.bufs[b].currentPixmap] = r.pPixmap,
                             !.bufs[b].name = r.name]
                    ELSE IF ~(s1.bufs[b].currentPixmap > 0)
                    THEN [r.st EXCEPT !.fault = "assert"]
                    ELSE [r.st EXCEPT
                             !.bufs[b].currentPixmap = FallBack(@),
                             !.bufs[b].numPixmaps =
                                 ShrunkNumPixmaps(FallBack(s1.bufs[b].currentPixmap))]))

\* ------------------------------------------------------------ completion
\* what the log keeps of a buffer record: its name, the bo behind its
\* current pixmap, and its ring
Snapshot(s, b) ==
    [name |-> s.bufs[b].name, bo |-> boFromBuffer(s, b),
     currentPixmap |-> s.bufs[b].currentPixmap,
     numPixmaps |-> s.bufs[b].numPixmaps,
     pPixmaps |-> s.bufs[b].pPixmaps]

\* a guard that still waits when the count reaches 0
StillWaiting_OffByOne(swapCount) == swapCount - 1 >= 0 /\ swapCount > 0

\* the guard of the completion routine: --cmd->swapCount > 0 returns early
StillWaiting(swapCount) == swapCount - 1 > 0

\* a completion that ignores the failure flag
NotFailed_Ignored(cmd) == TRUE

\* (cmd->flags & ARMSOC_SWAP_FAIL) == 0
NotFailed(cmd) == "FAIL" \notin cmd.flags

\* a completion that takes the drawable to be there
LookupSucceeds_Always(s, cmd) == TRUE

\* dixLookupDrawable(&pDraw, cmd->draw_id, ...) == Success
LookupSucceeds(s, cmd) == s.draw.alive

\* a completion that exchanges on a synthetic flip as well
IsRealFlip_AlsoFake(cmd) == cmd.type # "BLIT"

\* cmd->type != DRI2_BLIT_COMPLETE && (cmd->flags & ARMSOC_SWAP_FAKE_FLIP) == 0
IsRealFlip(cmd) == cmd.type # "BLIT" /\ "FAKE" \notin cmd.flags

\* DRI2SwapComplete(cmd->client, pDraw, 0, 0, 0, cmd->type, func, data)
DRI2SwapComplete(s, c) ==
    [s EXCEPT !.log[c].notified = @ + 1,
              !.log[c].notifiedType = s.cmds[c].type]

\* set_scanout_bo(pScrn, bo)
set_scanout_bo(s, c, b) ==
    [s EXCEPT !.log[c].published = @ + 1, !.log[c].scanout = b]

\* a completion that publishes the scanout of a flip whose drawable is gone
GoneSteps_Publish(s, c) ==
    IF IsRealFlip(s.cmds[c])
    THEN set_scanout_bo([s EXCEPT !.log[c].lookup = "gone"], c,
                        boFromBuffer(s, s.cmds[c].pDstBuffer))
    ELSE [s EXCEPT !.log[c].lookup = "gone"]

\* what the completion routine does for a drawable that no longer
\* resolves (status != Success): nothing
GoneSteps(s, c) == [s EXCEPT !.log[c].lookup = "gone"]

\* the part of the completion routine inside the ARMSOC_SWAP_FAIL test:
\* lookup, exchange, ring advance, notification, scanout publish
CompleteSteps(s, c, alloc) ==
    IF ~NotFailed(s.cmds[c]) THEN [s EXCEPT !.log[c].lookup = "skipped"]
    ELSE IF ~LookupSucceeds(s, s.cmds[c]) THEN GoneSteps(s, c)
    ELSE
    Then(IF IsRealFlip(s.cmds[c])
         THEN [exchangebufs(s, s.cmds[c].pSrcBuffer, s.cmds[c].pDstBuffer)
                   EXCEPT !.log[c].lookup = "found",
                          !.log[c].exchanged = @ + 1]
         ELSE [s EXCEPT !.log[c].lookup = "found"],
    LAMBDA s1 :
    Then(IF /\ IsRealFlip(s1.cmds[c])
            /\ s1.bufs[s1.cmds[c].pSrcBuffer].attachment = "BackLeft"
         THEN [nextBuffer(s1, s1.cmds[c].pSrcBuffer, alloc)
                   EXCEPT !.log[c].advanced = @ + 1]
         ELSE s1,
    LAMBDA s2 :
    Then(DRI2SwapComplete(s2, c),
    LAMBDA s3 :
         IF IsRealFlip(s3.cmds[c])
         THEN set_scanout_bo(s3, c, boFromBuffer(s3, s3.cmds[c].pDstBuffer))
         ELSE s3)))

\* the end of the completion routine: both records are released, the two
\* bos captured at its start are unreferenced, pending_flips is decremented
\* and the command is freed
ReleaseAndFree(s, c, old_src_bo, old_dst_bo) ==
    Then(ARMSOCDRI2DestroyBuffer(s, s.cmds[c].pSrcBuffer),
    LAMBDA s3 :
    Then(ARMSOCDRI2DestroyBuffer(s3, s3.cmds[c].pDstBuffer),
    LAMBDA s4 :
    Then(armsoc_bo_unreference(s4, old_src_bo),
    LAMBDA s5 :
    Then(armsoc_bo_unreference(s5, old_dst_bo),
    LAMBDA s6 :
         [s6 EXCEPT
             !.pending_flips = @ - 1,
             !.cmds[c] = FreedCmd,
             !.log[c].released = @ + 2,
             !.log[c].unrefd = << old_src_bo, old_dst_bo >>,
             !.log[c].postRef = << s4.bufs[s.cmds[c].pSrcBuffer].refcnt,
                                   s4.bufs[s.cmds[c].pDstBuffer].refcnt >>,
             !.log[c].freedAtDone =
                 { b \in {s.cmds[c].pSrcBuffer, s.cmds[c].pDstBuffer} :
                       s4.bufs[b].state = "freed" },
             !.log[c].flipsAfter = s6.pending_flips - 1]))))

\* the body of ARMSOCDRI2SwapComplete after the swapCount guard
SwapCompleteBody(s, c, alloc) ==
    IF \/ s.bufs[s.cmds[c].pSrcBuffer].state # "live"
       \/ s.bufs[s.cmds[c].pDstBuffer].state # "live"
    THEN [s EXCEPT !.fault = "uaf"]
    ELSE
    Then([s EXCEPT !.log[c].body = @ + 1,
                   !.log[c].bodyAt = s.log[c].events,
                   !.log[c].flipsBefore = s.pending_flips,
                   !.log[c].before = << Snapshot(s, s.cmds[c].pSrcBuffer),
                                        Snapshot(s, s.cmds[c].pDstBuffer) >>],
    LAMBDA s0 :
    Then(CompleteSteps(s0, c, alloc),
    LAMBDA s1 :
    Then([s1 EXCEPT !.log[c].after = << Snapshot(s1, s1.cmds[c].pSrcBuffer),
                                        Snapshot(s1, s1.cmds[c].pDstBuffer) >>,
                    !.log[c].allocs = s1.allocs - s.allocs],
    LAMBDA s2 :
         ReleaseAndFree(s2, c, boFromBuffer(s, s.cmds[c].pSrcBuffer),
                               boFromBuffer(s, s.cmds[c].pDstBuffer)))))

\* ARMSOCDRI2SwapComplete(cmd).  Called on a freed command it reads freed
\* memory.
ARMSOCDRI2SwapComplete(s, c, alloc) ==
    IF s.cmds[c].state # "live" THEN [s EXCEPT !.fault = "uaf"]
    ELSE IF StillWaiting(s.cmds[c].swapCount)
    THEN [s EXCEPT !.cmds[c].swapCount = @ - 1]
    ELSE Then([s EXCEPT !.cmds[c].swapCount = @ - 1],
              LAMBDA s1 : SwapCompleteBody(s1, c, alloc))

\* ---------------------------------------------------------- ScheduleSwap
\* a do_flip without the height comparison
do_flip_NoHeight(s, src_bo, dst_bo) ==
    /\ armsoc_bo_get_fb(s, src_bo) # 0
    /\ armsoc_bo_get_fb(s, dst_bo) # 0
    /\ canflip(s)
    /\ s.bo[src_bo].w = s.bo[dst_bo].w

\* do_flip: both bos have a framebuffer, the drawable can flip, and the
\* two bos have the same width and the same height
do_flip(s, src_bo, dst_bo) ==
    /\ armsoc_bo_get_fb(s, src_bo) # 0
    /\ armsoc_bo_get_fb(s, dst_bo) # 0
    /\ canflip(s)
    /\ s.bo[src_bo].w = s.bo[dst_bo].w
    /\ s.bo[src_bo].h = s.bo[dst_bo].h

\* a swapCount that counts the flip that failed as well
SwapCountFor_CountsFailed(s, ret) ==
    IF ret < 0
    THEN IF s.cfg.use_page_flip_events THEN -ret ELSE 0
    ELSE IF s.cfg.use_page_flip_events THEN ret ELSE 0

\* a swapCount that never waits for events
SwapCountFor_NoWait(s, ret) == 0

\* a swapCount that never waits after a failure
SwapCountFor_FailNoWait(s, ret) ==
    IF ret < 0 THEN 0
    ELSE IF s.cfg.use_page_flip_events THEN ret ELSE 0

\* cmd->swapCount after drmmode_page_flip returned ret
SwapCountFor(s, ret) ==
    IF ret < 0
    THEN IF s.cfg.use_page_flip_events THEN -(ret + 1) ELSE 0
    ELSE IF s.cfg.use_page_flip_events THEN ret ELSE 0

\* flags that do not record the failure
FlagsFor_NoFail(ret) == IF ret = 0 THEN {"FAKE"} ELSE {}

\* cmd->flags after drmmode_page_flip returned ret
FlagsFor(ret) ==
    IF ret < 0 THEN {"FAIL"} ELSE IF ret = 0 THEN {"FAKE"} ELSE {}

\* the value ScheduleSwap returns on the flip path
FlipReturn(ret) == IF ret < 0 THEN "FALSE" ELSE "TRUE"

\* a CopyRegion that never copies
ARMSOCDRI2CopyRegion_NeverCopies(s, c, gc) ==
    [s EXCEPT !.log[c].copyCalls = @ + 1]

\* ARMSOCDRI2CopyRegion(pDraw, &region, pDstBuffer, pSrcBuffer): the area
\* copy of the blit path (pixel contents are not part of the heap); it
\* returns without copying when GetScratchGC gives no GC (gc = FALSE)
ARMSOCDRI2CopyRegion(s, c, gc) ==
    IF ~gc THEN [s EXCEPT !.log[c].copyCalls = @ + 1]
    ELSE [s EXCEPT !.log[c].copyCalls = @ + 1, !.log[c].copied = @ + 1]

\* what a ScheduleSwap that could not allocate its command returned
NoCommand == [ret |-> "FALSE", attachment |-> "none", outcome |-> "nocmd"]

\* the return of ScheduleSwap, as the log keeps it
Return(s, c, v) ==
    [s EXCEPT !.log[c].returned = v,
              !.log[c].inFlight = (s.cmds[c].state = "live")]

\* the start of ScheduleSwap: the command is filled in, both records are
\* referenced and pending_flips is incremented
ScheduleStart(s, c, dst, src) ==
    Then([s EXCEPT !.nextCmd = c,
                   !.cmds[c] = [state |-> "live", type |-> "none",
                                draw_id |-> 1, pSrcBuffer |-> src,
                                pDstBuffer |-> dst, swapCount |-> 0,
                                flags |-> {}],
                   !.log[c].preRef = << s.bufs[src].refcnt, s.bufs[dst].refcnt >>,
                   !.log[c].flipsAtSched = s.pending_flips],
    LAMBDA s1 :
    Then(ARMSOCDRI2ReferenceBuffer(s1, src),
    LAMBDA s2 :
    Then(ARMSOCDRI2ReferenceBuffer(s2, dst),
    LAMBDA s3 :
    Then([s3 EXCEPT !.pending_flips = @ + 1],
    LAMBDA s4 :
    Then(armsoc_bo_reference(s4, boFromBuffer(s4, src)),
    LAMBDA s5 :
    Then(armsoc_bo_reference(s5, boFromBuffer(s4, dst)),
    LAMBDA s6 :
         [s6 EXCEPT
             !.log[c].refd = << boFromBuffer(s4, src), boFromBuffer(s4, dst) >>,
             !.log[c].flipInputs =
                 [src_fb |-> armsoc_bo_get_fb(s6, boFromBuffer(s4, src)) # 0,
                  dst_fb |-> armsoc_bo_get_fb(s6, boFromBuffer(s4, dst)) # 0,
                  canflip |-> canflip(s6),
                  sameW |-> s6.bo[boFromBuffer(s4, src)].w
                              = s6.bo[boFromBuffer(s4, dst)].w,
                  sameH |-> s6.bo[boFromBuffer(s4, src)].h
                              = s6.bo[boFromBuffer(s4, dst)].h]]))))))

\* the flip path of ScheduleSwap, drmmode_page_flip having returned ret
\* with k flips queued
ScheduleFlip(s, c, ret, k, alloc) ==
    Then([s EXCEPT !.cmds[c].type = "FLIP",
                   !.cmds[c].flags = @ \cup FlagsFor(ret),
                   !.cmds[c].swapCount = SwapCountFor(s, ret),
                   !.evts[c] = QueuedEvents(s, k),
                   !.log[c].kind = "FLIP",
                   !.log[c].issued = TRUE,
                   !.log[c].ret = ret,
                   !.log[c].flags = FlagsFor(ret),
                   !.log[c].queued = QueuedEvents(s, k)],
    LAMBDA s1 :
    Then(IF s1.cmds[c].swapCount = 0
         THEN ARMSOCDRI2SwapComplete(s1, c, alloc)
         ELSE s1,
    LAMBDA s2 : Return(s2, c, FlipReturn(ret))))

\* the blit path of ScheduleSwap
ScheduleBlit(s, c, alloc, gc) ==
    Then([ARMSOCDRI2CopyRegion(s, c, gc) EXCEPT !.cmds[c].type = "BLIT",
                                                !.log[c].kind = "BLIT",
                                                !.log[c].scratchGC = gc],
    LAMBDA s1 :
    Then(ARMSOCDRI2SwapComplete(s1, c, alloc),
    LAMBDA s2 : Return(s2, c, "TRUE")))

\* ARMSOCDRI2ScheduleSwap(client, pDraw, pDstBuffer, pSrcBuffer, ...).
\* k and failed are what drmmode_page_flip meets: k flips queued, and
\* whether queueing one failed; alloc is the outcome of a ring allocation
\* should the completion run here and advance the ring.
\* gc tells whether GetScratchGC hands out a GC should the swap be a blit.
\* cmdok tells whether the calloc of the command succeeds: without a
\* command ScheduleSwap returns FALSE and has done nothing.
ARMSOCDRI2ScheduleSwap(s, dst, src, k, failed, alloc, gc, cmdok) ==
    IF ~cmdok THEN [s EXCEPT !.result = NoCommand]
    ELSE
    Then(ScheduleStart(s, s.nextCmd + 1, dst, src),
    LAMBDA s1 :
         IF do_flip(s1, s1.log[s.nextCmd + 1].refd[1], s1.log[s.nextCmd + 1].refd[2])
         THEN ScheduleFlip(s1, s.nextCmd + 1, drmmode_page_flip(k, failed), k, alloc)
         ELSE ScheduleBlit(s1, s.nextCmd + 1, alloc, gc))

\* ------------------------------------------------------------- bookkeeping
\* what the other agents did to the reference counts of the buffers of the
\* commands in flight (actor: the command whose handler ran, 0 if none).
\* The log of a freed command is kept until the next step.
Account(pre, post, actor) ==
    [post EXCEPT
       !.seen = [b \in BufIds |->
                    IF post.bufs[b].state = "live" THEN post.seen[b] ELSE NoneSeen],
       !.log =
        [c \in CmdIds |->
            IF c # actor /\ post.cmds[c].state = "freed"
            THEN PastLog
            ELSE
            IF c # actor /\ pre.cmds[c].state = "live" /\ post.cmds[c].state = "live"
            THEN [post.log[c] EXCEPT !.others =
                     << @[1] + post.bufs[pre.cmds[c].pSrcBuffer].refcnt
                             - pre.bufs[pre.cmds[c].pSrcBuffer].refcnt,
                        @[2] + post.bufs[pre.cmds[c].pDstBuffer].refcnt
                             - pre.bufs[pre.cmds[c].pDstBuffer].refcnt >>]
            ELSE post.log[c]]]

\* the log once a step other than a command's own handler was taken
Forget == [c \in CmdIds |-> IF cmds[c].state = "freed" THEN PastLog ELSE log[c]]

AllocOutcomes == {"ok", "nopix", "nobo", "nofb"}
CreateOutcomes == {"ok", "nobuf", "nopix", "noarr", "nobo"}

\* ----------------------------------------------------------------- actions
\* the state after ScreenInit, for a configuration among cfgs and a window
\* bo with or without a framebuffer (fbs); watch is what the probe records
InitWith(cfgs, fbs, watch) ==
    /\ cfg \in cfgs
    /\ draw = [alive |-> TRUE, flipCapable |-> FALSE, width |-> 1, height |-> 1]
    /\ \E fb \in fbs :
         bo = [b \in PixIds |-> IF b = WinPix
                                THEN [ref |-> 1, fb |-> fb, w |-> 1, h |-> 1]
                                ELSE NoBo]
    /\ pix = [p \in PixIds |-> IF p = WinPix
                               THEN [state |-> "live", refcnt |-> 1, bo |-> WinPix]
                               ELSE NoPix]
    /\ nextPix = 1
    /\ bufs = [b \in BufIds |-> NoBuf]
    /\ nextBuf = 0
    /\ coreBufs = {}
    /\ cmds = [c \in CmdIds |-> NoCmd]
    /\ nextCmd = 0
    /\ pending_flips = 0
    /\ evts = [c \in CmdIds |-> 0]
    /\ nResize = 0
    /\ fault = "none"
    /\ log = [c \in CmdIds |-> NoLog]
    /\ probe = watch
    /\ screen = "open"
    /\ result = NoResult
    /\ seen = [b \in BufIds |-> NoneSeen]

Init ==
    InitWith([driNumBufs : DriNumBufs, use_page_flip_events : BOOLEAN,
              NoFlip : BOOLEAN], BOOLEAN, "none")

\* the attach probe: the handler that returned heap post was called for
\* buffer b (0: none), as ReuseBufferNotify calls times (0 or 1)
Watch(post, b, calls) ==
    IF post.probe # "fb" \/ b = 0 THEN post
    ELSE [post EXCEPT
            !.seen[b] = [reuses |-> IF @.reuses + calls > MaxSeen THEN MaxSeen
                                    ELSE @.reuses + calls,
                         attaches |-> @.attaches + post.fbAdds]]

\* the probe keeps what CreateBuffer was asked and returned
CreateResult(post, attachment, outcome, ret) ==
    IF post.probe # "fb" THEN post
    ELSE [post EXCEPT !.result = [ret |-> ret, attachment |-> attachment,
                                  outcome |-> outcome]]

\* a handler ran from heap pre to heap post on behalf of actor
Step(pre, post, actor) ==
    \E done \in { Account(pre, post, actor) } : Commit(done)

\* the core asks for a buffer of the drawable (DRI2GetBuffers)
CreateBufferUpTo(maxBufs) ==
    /\ fault = "none" /\ screen = "open" /\ draw.alive /\ nextBuf < maxBufs
    /\ \E attachment \in {"FrontLeft", "BackLeft"}, outcome \in CreateOutcomes,
          fbok \in BOOLEAN :
         /\ \A b \in coreBufs : bufs[b].attachment # attachment
         /\ \E s \in {St} :
              \E post \in { ARMSOCDRI2CreateBuffer(s, attachment, outcome, fbok) } :
                 \E kept \in { Watch(post, IF post.nextBuf > s.nextBuf
                                            THEN post.nextBuf ELSE 0, 0) } :
                    \E told \in { CreateResult(kept, attachment, outcome,
                                    IF post.nextBuf > s.nextBuf
                                    THEN "buf" ELSE "NULL") } :
                       Step(s, told, 0)

CreateBuffer == CreateBufferUpTo(MaxBufs)

\* the core reuses a buffer it holds (DRI2GetBuffers)
ReuseBufferNotify ==
    /\ fault = "none" /\ screen = "open" /\ draw.alive
    /\ \E b \in coreBufs, fbok \in BOOLEAN :
         \E s \in {St} :
            \E post \in { ARMSOCDRI2ReuseBufferNotify(s, b, fbok) } :
               \E kept \in { Watch(post, b, 1) } :
                  Step(s, kept, 0)

\* the core drops its reference on a buffer
DestroyBuffer ==
    /\ fault = "none" /\ screen = "open"
    /\ \E b \in coreBufs :
         \E s \in { [St EXCEPT !.coreBufs = @ \ {b}] } :
            \E post \in { ARMSOCDRI2DestroyBuffer(s, b) } :
               Step(s, post, 0)

\* the core schedules a swap of the back buffer to the front buffer
ScheduleSwapUpTo(maxCmds) ==
    /\ fault = "none" /\ screen = "open" /\ draw.alive /\ nextCmd < maxCmds
    /\ \E src \in coreBufs, dst \in coreBufs :
         /\ bufs[src].attachment = "BackLeft"
         /\ bufs[dst].attachment = "FrontLeft"
         /\ \E k \in 0..MaxCrtc, failed \in BOOLEAN, alloc \in AllocOutcomes,
               gc \in BOOLEAN, cmdok \in BOOLEAN :
              /\ failed => k < MaxCrtc
              /\ \E s \in {St} :
                   \E post \in { ARMSOCDRI2ScheduleSwap(s, dst, src, k, failed,
                                                         alloc, gc, cmdok) } :
                      Step(s, post, nextCmd + 1)

ScheduleSwap == ScheduleSwapUpTo(MaxCmds)

\* the kernel delivers one of the flip events it owes for a command
FlipEvent ==
    /\ fault = "none" /\ screen = "open"
    /\ \E c \in CmdIds, alloc \in AllocOutcomes :
         /\ evts[c] > 0
         /\ \E s \in { [St EXCEPT !.evts[c] = @ - 1, !.log[c].events = @ + 1] } :
              \E post \in { ARMSOCDRI2SwapComplete(s, c, alloc) } :
                 Step(s, post, c)

\* the window is mapped or unmapped: DRI2CanFlip changes
MapUnmap ==
    /\ fault = "none" /\ screen = "open" /\ draw.alive
    /\ draw' = [draw EXCEPT !.flipCapable = ~@]
    /\ log' = Forget
    /\ seen' = [b \in BufIds |-> NoneSeen]
    /\ UNCHANGED << cfg, pix, bo, nextPix, bufs, nextBuf, coreBufs, cmds,
                    nextCmd, pending_flips, evts, nResize, fault, probe, screen >>
    /\ result' = NoResult

\* the resolution changes: the drawable and the bo behind its pixmap take
\* the new size
Resize ==
    /\ fault = "none" /\ screen = "open" /\ draw.alive /\ nResize < MaxResize
    /\ nResize' = nResize + 1
    /\ \E sz \in Sizes :
         /\ sz # << draw.width, draw.height >>
         /\ draw' = [draw EXCEPT !.width = sz[1], !.height = sz[2]]
         /\ bo' = [bo EXCEPT ![pix[WinPix].bo].w = sz[1],
                             ![pix[WinPix].bo].h = sz[2]]
    /\ log' = Forget
    /\ UNCHANGED << cfg, pix, nextPix, bufs, nextBuf, coreBufs, cmds,
                    nextCmd, pending_flips, evts, fault, probe, seen, screen >>
    /\ result' = NoResult

\* the drawable is destroyed: its id no longer resolves
DrawableGone ==
    /\ fault = "none" /\ screen = "open" /\ draw.alive
    /\ draw' = GoneDraw
    /\ log' = Forget
    /\ UNCHANGED << cfg, pix, bo, nextPix, bufs, nextBuf, coreBufs, cmds,
                    nextCmd, pending_flips, evts, nResize, fault, probe, seen, screen >>
    /\ result' = NoResult

Next ==
    \/ CreateBuffer
    \/ ReuseBufferNotify
    \/ DestroyBuffer
    \/ ScheduleSwap
    \/ FlipEvent
    \/ MapUnmap
    \/ Resize
    \/ DrawableGone

Spec == Init /\ [][Next]_vars

\* ------------------------------------------------------ the ring scenario
\* a chain of four buffers (a ring of three back slots) on a screen that
\* flips, swapped RingCmds times
InitRing ==
    InitWith([driNumBufs : {4}, use_page_flip_events : BOOLEAN,
              NoFlip : {FALSE}], {TRUE}, "none")

RingScheduleSwap == ScheduleSwapUpTo(RingCmds)

NextRing ==
    \/ CreateBuffer
    \/ ReuseBufferNotify
    \/ DestroyBuffer
    \/ RingScheduleSwap
    \/ FlipEvent
    \/ MapUnmap
    \/ DrawableGone

SpecRing == InitRing /\ [][NextRing]_vars

\* ------------------------------------------- a record created during a swap
\* a chain of four buffers with flip events, where the core may drop a
\* record and create another one while swaps that hold it are in flight
InitRefront ==
    InitWith([driNumBufs : {4}, use_page_flip_events : {TRUE},
              NoFlip : {FALSE}], {TRUE}, "none")

RefrontCreateBuffer == CreateBufferUpTo(RefrontBufs)

NextRefront ==
    \/ RefrontCreateBuffer
    \/ DestroyBuffer
    \/ ScheduleSwap
    \/ FlipEvent
    \/ MapUnmap

SpecRefront == InitRefront /\ [][NextRefront]_vars

\* ------------------------------------------------------------- teardown
\* a wait loop that never waits
FlipsPending_Never(s) == FALSE

\* the test of the wait loop of CloseScreen: pARMSOC->pending_flips > 0
FlipsPending(s) == s.pending_flips > 0

\* ARMSOCDRI2CloseScreen at its loop test: it waits for an event while
\* flips are pending and calls DRI2CloseScreen once none is
LoopTest(s) ==
    [s EXCEPT !.screen = IF FlipsPending(s) THEN "waiting" ELSE "closed"]

\* the server closes the screen: ARMSOCDRI2CloseScreen is entered
CloseScreen ==
    /\ fault = "none" /\ screen = "open"
    /\ \E s \in {St} :
         \E post \in { LoopTest(s) } :
            Step(s, post, 0)

\* drmmode_wait_for_event in the wait loop dispatches one flip event, and
\* the loop test is taken again
WaitForEvent ==
    /\ fault = "none" /\ screen = "waiting"
    /\ \E c \in CmdIds, alloc \in AllocOutcomes :
         /\ evts[c] > 0
         /\ \E s \in { [St EXCEPT !.evts[c] = @ - 1, !.log[c].events = @ + 1] } :
              \E done \in { ARMSOCDRI2SwapComplete(s, c, alloc) } :
                 \E post \in { LoopTest(done) } :
                    Step(s, post, c)

\* one screen that flips, up to its teardown
InitClose ==
    InitWith([driNumBufs : {2}, use_page_flip_events : BOOLEAN,
              NoFlip : {FALSE}], {TRUE}, "none")

NextClose ==
    \/ CreateBuffer
    \/ ReuseBufferNotify
    \/ DestroyBuffer
    \/ ScheduleSwap
    \/ FlipEvent
    \/ MapUnmap
    \/ DrawableGone
    \/ CloseScreen
    \/ WaitForEvent

SpecClose == InitClose /\ [][NextClose]_vars

\* the display layer delivers every event it owes
FairSpecClose ==
    /\ SpecClose
    /\ WF_vars(FlipEvent)
    /\ WF_vars(WaitForEvent)

\* ---------------------------------------------- the attach-policy scenario
\* double or triple buffering, with the attach probe on
InitFb ==
    InitWith([driNumBufs : DriNumBufs, use_page_flip_events : {TRUE},
              NoFlip : BOOLEAN], {TRUE}, "fb")

FbScheduleSwap == ScheduleSwapUpTo(FbCmds)

NextFb ==
    \/ CreateBuffer
    \/ ReuseBufferNotify
    \/ DestroyBuffer
    \/ FbScheduleSwap
    \/ FlipEvent
    \/ MapUnmap

SpecFb == InitFb /\ [][NextFb]_vars

\* ===================================================================
\* Properties
\* ===================================================================
\* the command has completed and its log is at hand (the state right after
\* the handler in which its completion body ran)
Done(c) == cmds[c].state = "freed" /\ log[c].kind \in {"FLIP", "BLIT"}

\* the command is in flight
Live(c) == cmds[c].state = "live"

\* ScheduleSwap has returned for the command and its log is at hand
Returned(c) == log[c].returned # "none"

\* the flip issuer reported an error for the command
FlipFailed(c) == log[c].issued /\ log[c].ret < 0

\* C1 (as stated): every completed command has had the completion notifier
\* invoked exactly once, whatever its path
C1_NotifiedExactlyOnce ==
    \A c \in CmdIds : Done(c) => log[c].notified = 1

\* C1 (amended): the notifier is invoked at most once per command; a
\* completed command was notified exactly once if it is not a failed flip
\* and the drawable still resolved at completion, and not at all otherwise;
\* a command in flight has not been notified
C1_NotifiedOnceUnlessFailedOrGone ==
    \A c \in CmdIds :
        /\ Done(c) => log[c].notified =
                          IF FlipFailed(c) \/ ~draw.alive THEN 0 ELSE 1
        /\ Live(c) => log[c].notified = 0

C1_Witness ==
    \E c \in CmdIds :
        /\ Done(c) /\ log[c].issued /\ log[c].ret > 0 /\ log[c].bodyAt > 0
        /\ log[c].notified = 1 /\ log[c].notifiedType = "FLIP"

\* C2: the completion body runs exactly once per command: not while the
\* command still awaits events, once when it is freed; a command in flight
\* is owed exactly the events it waits for, a freed command is owed none,
\* and no freed command or record is ever touched
C2_BodyExactlyOnce ==
    /\ fault = "none"
    /\ \A c \in CmdIds :
        /\ Done(c) => log[c].body = 1 /\ log[c].released = 2
        /\ Live(c) => /\ log[c].body = 0
                      /\ cmds[c].swapCount > 0
                      /\ evts[c] = cmds[c].swapCount
        /\ ~Live(c) => evts[c] = 0

C2_Witness ==
    \E c \in CmdIds :
        /\ Done(c) /\ log[c].body = 1 /\ log[c].bodyAt = 2 /\ log[c].events = 2

\* C3 (as stated): when the issuer returns N > 0, ScheduleSwap returns
\* TRUE with the command in flight, and the completion happens at the N-th
\* event
C3_PositiveCountWaits ==
    \A c \in CmdIds :
        (Returned(c) /\ log[c].issued /\ log[c].ret > 0) =>
            /\ log[c].returned = "TRUE"
            /\ log[c].inFlight
            /\ Done(c) => log[c].bodyAt = log[c].ret

\* C3 (amended): when the issuer returns N > 0, ScheduleSwap returns TRUE;
\* if page flip events are in use the command is in flight at the return,
\* nothing of its completion happens before the N-th event, and the
\* completion happens at the N-th event; if they are not in use the
\* completion happens inside ScheduleSwap
C3_PositiveCountWaitsWithEvents ==
    \A c \in CmdIds :
        (Returned(c) /\ log[c].issued /\ log[c].ret > 0) =>
            /\ log[c].returned = "TRUE"
            /\ log[c].inFlight = cfg.use_page_flip_events
            /\ Live(c) => /\ log[c].events < log[c].ret
                          /\ log[c].exchanged = 0
                          /\ log[c].notified = 0
                          /\ log[c].released = 0
            /\ Done(c) => /\ log[c].bodyAt =
                                 IF cfg.use_page_flip_events THEN log[c].ret ELSE 0
                          /\ log[c].released = 2

C3_Witness ==
    \E c \in CmdIds :
        /\ Done(c) /\ log[c].issued /\ log[c].ret = 2 /\ log[c].bodyAt = 2
        /\ log[c].exchanged = 1 /\ log[c].notified = 1

\* C4: when a command completes, the reference counts of its source and
\* destination records are what they were just before ScheduleSwap, plus
\* what others did to them meanwhile (nothing, if nobody else took or
\* dropped a reference); while in flight each is one higher
C4_RefsPaired ==
    \A c \in CmdIds :
        /\ Done(c) =>
              /\ log[c].postRef[1] = log[c].preRef[1] + log[c].others[1]
              /\ log[c].postRef[2] = log[c].preRef[2] + log[c].others[2]
        /\ Live(c) =>
              /\ bufs[cmds[c].pSrcBuffer].refcnt =
                     log[c].preRef[1] + 1 + log[c].others[1]
              /\ bufs[cmds[c].pDstBuffer].refcnt =
                     log[c].preRef[2] + 1 + log[c].others[2]

C4_Witness ==
    \E c \in CmdIds :
        /\ Done(c) /\ log[c].issued /\ log[c].ret > 0 /\ log[c].bodyAt > 0
        /\ log[c].others = << 0, 0 >>
        /\ log[c].preRef = << 1, 1 >> /\ log[c].postRef = << 1, 1 >>

\* the pixmaps of a record's ring
RingPixmaps(b) ==
    { bufs[b].pPixmaps[i] : i \in DOMAIN bufs[b].pPixmaps } \ {0}

\* the commands in flight that hold the record
Holders(b) ==
    { c \in CmdIds : Live(c) /\ b \in {cmds[c].pSrcBuffer, cmds[c].pDstBuffer} }

\* C5: a record held by a command in flight is live, with its pixmaps, also
\* after the core dropped its own reference; a record is freed only when
\* neither the core nor a command in flight holds it, and nothing freed is
\* accessed
C5_NotFreedWhileInFlight ==
    /\ fault = "none"
    /\ \A b \in BufIds :
        /\ Holders(b) # {} =>
              /\ bufs[b].state = "live"
              /\ bufs[b].refcnt >= 1
              /\ \A p \in RingPixmaps(b) : pix[p].state = "live"
        /\ bufs[b].state = "live" =>
              bufs[b].refcnt = Cardinality(Holders(b))
                                 + (IF b \in coreBufs THEN 1 ELSE 0)
        /\ bufs[b].state = "freed" => b \notin coreBufs /\ Holders(b) = {}

C5_Witness ==
    \E c \in CmdIds :
        /\ Live(c)
        /\ cmds[c].pSrcBuffer \notin coreBufs
        /\ bufs[cmds[c].pSrcBuffer].state = "live"
        /\ bufs[cmds[c].pSrcBuffer].refcnt = 1

\* C6: a flip whose drawable no longer resolves at completion still runs
\* to completion: no notification, no exchange and no scanout publish, but
\* both record references are released (the counts are back at their value
\* before ScheduleSwap, plus what others did), the two bos captured at the
\* start of the completion are unreferenced, pending_flips is decremented
\* and the command is freed
C6_GoneStillCompletes ==
    \A c \in CmdIds :
        (Done(c) /\ log[c].issued /\ ~FlipFailed(c) /\ ~draw.alive) =>
            /\ log[c].lookup = "gone"
            /\ log[c].notified = 0
            /\ log[c].published = 0
            /\ log[c].exchanged = 0
            /\ log[c].body = 1
            /\ log[c].released = 2
            /\ log[c].postRef[1] = log[c].preRef[1] + log[c].others[1]
            /\ log[c].postRef[2] = log[c].preRef[2] + log[c].others[2]
            /\ log[c].unrefd = << log[c].before[1].bo, log[c].before[2].bo >>
            /\ log[c].flipsAfter = log[c].flipsBefore - 1
            /\ cmds[c] = FreedCmd

C6_Witness ==
    \E c \in CmdIds :
        /\ Done(c) /\ log[c].issued /\ log[c].ret > 0 /\ log[c].bodyAt > 0
        /\ ~draw.alive /\ log[c].lookup = "gone" /\ log[c].released = 2

\* C7 (as stated): ScheduleSwap issues a flip exactly when both bos have a
\* framebuffer, the drawable can flip, and the widths and the heights
\* agree; the command is then of kind FLIP; otherwise nothing is issued,
\* the kind is BLIT, the copy and the completion happen inside
\* ScheduleSwap and the notifier fires once with kind BLIT
C7_FlipIffEligible ==
    \A c \in CmdIds :
        Returned(c) =>
            /\ log[c].issued <=> /\ log[c].flipInputs.src_fb
                                 /\ log[c].flipInputs.dst_fb
                                 /\ log[c].flipInputs.canflip
                                 /\ log[c].flipInputs.sameW
                                 /\ log[c].flipInputs.sameH
            /\ log[c].issued => log[c].kind = "FLIP"
            /\ ~log[c].issued =>
                  /\ log[c].kind = "BLIT"
                  /\ log[c].returned = "TRUE"
                  /\ ~log[c].inFlight
                  /\ Done(c)
                  /\ log[c].bodyAt = 0
                  /\ log[c].copied = 1
                  /\ log[c].notified = 1
                  /\ log[c].notifiedType = "BLIT"

\* C7 (amended): a ScheduleSwap that cannot allocate its command returns
\* FALSE and changes nothing.  Otherwise it issues a flip exactly when both
\* bos have a framebuffer, the drawable can flip, and the widths and the
\* heights agree; the command is then of kind FLIP and CopyRegion is not
\* called; in every other case nothing is issued, the kind is BLIT,
\* CopyRegion is called once and copies the area exactly when it gets a
\* scratch GC, the completion happens inside ScheduleSwap and the notifier
\* fires once with kind BLIT whether or not the area was copied
C7_FlipIffEligibleCopyIfGC ==
    /\ [](\A c \in CmdIds :
            Returned(c) =>
                /\ log[c].issued <=> /\ log[c].flipInputs.src_fb
                                     /\ log[c].flipInputs.dst_fb
                                     /\ log[c].flipInputs.canflip
                                     /\ log[c].flipInputs.sameW
                                     /\ log[c].flipInputs.sameH
                /\ log[c].issued =>
                      /\ log[c].kind = "FLIP"
                      /\ log[c].copyCalls = 0
                      /\ log[c].copied = 0
                /\ ~log[c].issued =>
                      /\ log[c].kind = "BLIT"
                      /\ log[c].returned = "TRUE"
                      /\ ~log[c].inFlight
                      /\ Done(c)
                      /\ log[c].bodyAt = 0
                      /\ log[c].copyCalls = 1
                      /\ log[c].copied = IF log[c].scratchGC THEN 1 ELSE 0
                      /\ log[c].notified = 1
                      /\ log[c].notifiedType = "BLIT")
    /\ [][result'.outcome = "nocmd" =>
              /\ result'.ret = "FALSE"
              /\ UNCHANGED << cfg, draw, pix, bo, nextPix, bufs, nextBuf,
                              coreBufs, cmds, nextCmd, pending_flips, evts,
                              fault, screen >>
              /\ \A c \in CmdIds :
                    log'[c].returned # "none" => log'[c] = log[c]
         ]_vars

\* a blit forced by differing heights, for which no scratch GC was at hand
C7_Witness ==
    \E c \in CmdIds :
        /\ Returned(c) /\ log[c].kind = "BLIT"
        /\ log[c].flipInputs.src_fb /\ log[c].flipInputs.dst_fb
        /\ log[c].flipInputs.canflip /\ log[c].flipInputs.sameW
        /\ ~log[c].flipInputs.sameH
        /\ log[c].copyCalls = 1 /\ ~log[c].scratchGC /\ log[c].copied = 0
        /\ log[c].notified = 1 /\ log[c].notifiedType = "BLIT"

\* C8 (as stated): a flip for which the issuer returned 0 is flagged as
\* synthetic, completes inside ScheduleSwap, and its completion exchanges
\* the two records and advances the ring of a BackLeft source
C8_SyntheticFlipExchanges ==
    \A c \in CmdIds :
        (Returned(c) /\ log[c].issued /\ log[c].ret = 0) =>
            /\ "FAKE" \in log[c].flags
            /\ ~log[c].inFlight
            /\ log[c].exchanged = 1
            /\ log[c].advanced = 1

\* C8 (amended): a flip for which the issuer returned 0 is flagged as
\* synthetic and completes inside ScheduleSwap, notifying once with kind
\* FLIP and releasing its references; its completion neither exchanges the
\* two records nor advances the ring nor publishes a scanout: names, bos and
\* rings of both records are as before
C8_SyntheticFlipNoExchange ==
    \A c \in CmdIds :
        (Returned(c) /\ log[c].issued /\ log[c].ret = 0) =>
            /\ "FAKE" \in log[c].flags
            /\ ~log[c].inFlight
            /\ Done(c)
            /\ log[c].body = 1 /\ log[c].bodyAt = 0
            /\ log[c].notified = 1 /\ log[c].notifiedType = "FLIP"
            /\ log[c].exchanged = 0
            /\ log[c].advanced = 0
            /\ log[c].published = 0
            /\ log[c].after = log[c].before
            /\ log[c].released = 2

C8_Witness ==
    \E c \in CmdIds :
        /\ Done(c) /\ log[c].issued /\ log[c].ret = 0
        /\ log[c].flags = {"FAKE"} /\ log[c].notified = 1
        /\ log[c].exchanged = 0 /\ cfg.driNumBufs = 3

\* C9: a flip for which the issuer returned an error is flagged as failed;
\* its completion neither exchanges (names, bos, currentPixmap, numPixmaps
\* of both records are as before) nor publishes a scanout, but releases
\* both record references and decrements pending_flips by one
C9_FailedFlipSkipsExchange ==
    \A c \in CmdIds :
        /\ (Returned(c) /\ FlipFailed(c)) => "FAIL" \in log[c].flags
        /\ (Done(c) /\ FlipFailed(c)) =>
              /\ "FAIL" \in log[c].flags
              /\ log[c].exchanged = 0
              /\ log[c].advanced = 0
              /\ log[c].published = 0
              /\ log[c].after = log[c].before
              /\ log[c].released = 2
              /\ log[c].postRef[1] = log[c].preRef[1] + log[c].others[1]
              /\ log[c].postRef[2] = log[c].preRef[2] + log[c].others[2]
              /\ log[c].flipsAfter = log[c].flipsBefore - 1

C9_Witness ==
    \E c \in CmdIds :
        /\ Done(c) /\ log[c].issued /\ log[c].ret = -2 /\ log[c].bodyAt = 1
        /\ draw.alive /\ log[c].exchanged = 0 /\ log[c].released = 2

\* C10 (as stated): whenever the issuer returns an error the command has
\* completed and is freed when ScheduleSwap returns, without waiting for
\* any event, and ScheduleSwap returns FALSE
C10_FailedFlipCompletesAtOnce ==
    \A c \in CmdIds :
        (Returned(c) /\ FlipFailed(c)) =>
            /\ log[c].returned = "FALSE"
            /\ ~log[c].inFlight
            /\ log[c].bodyAt = 0

\* C10 (amended): whenever the issuer returns an error ScheduleSwap
\* returns FALSE with the command flagged as failed; the command has
\* completed at the return if no flip was queued (the error is -1) or page
\* flip events are not in use; after an error -(k+1), k > 0, with page flip
\* events in use it is in flight at the return and completes at the k-th
\* event, not before
C10_FailedFlipWaitsForQueued ==
    \A c \in CmdIds :
        (Returned(c) /\ FlipFailed(c)) =>
            /\ log[c].returned = "FALSE"
            /\ "FAIL" \in log[c].flags
            /\ log[c].inFlight =
                   (cfg.use_page_flip_events /\ log[c].ret < -1)
            /\ Live(c) => /\ log[c].events < -(log[c].ret + 1)
                          /\ log[c].body = 0
                          /\ log[c].released = 0
            /\ Done(c) => /\ log[c].bodyAt =
                                 IF cfg.use_page_flip_events
                                 THEN -(log[c].ret + 1) ELSE 0
                          /\ log[c].released = 2

C10_Witness ==
    \E c \in CmdIds :
        /\ Live(c) /\ log[c].issued /\ log[c].ret = -2
        /\ log[c].returned = "FALSE" /\ log[c].inFlight
        /\ cmds[c].swapCount = 1

\* the live BackLeft records
BackBufs == { b \in BufIds : bufs[b].state = "live" /\ bufs[b].attachment = "BackLeft" }

\* the slot the next advance of a ring goes to
Target(snap) == (snap.currentPixmap + 1) % snap.numPixmaps

\* C11: in a chain of N > 2 buffers whose ring never lost a slot, after j
\* ring advances currentPixmap is j mod (N-1), and the slots allocated are
\* those visited so far; an advance to a slot that is already allocated
\* creates no pixmap, leaves the ring as it is and takes the name of the bo
\* of that slot, an advance to an empty slot creates exactly one
C11_RingCycles ==
    /\ \A b \in BackBufs :
          (cfg.driNumBufs > 2 /\ bufs[b].numPixmaps = cfg.driNumBufs - 1) =>
              /\ bufs[b].currentPixmap = bufs[b].advances % (cfg.driNumBufs - 1)
              /\ \A i \in 0..(cfg.driNumBufs - 2) :
                    bufs[b].pPixmaps[i] # 0 <=> i <= bufs[b].advances
    /\ \A c \in CmdIds :
          (Done(c) /\ log[c].advanced = 1 /\ cfg.driNumBufs > 2) =>
              IF log[c].before[1].pPixmaps[Target(log[c].before[1])] # 0
              THEN /\ log[c].allocs = 0
                   /\ log[c].after[1].pPixmaps = log[c].before[1].pPixmaps
                   /\ log[c].after[1].currentPixmap = Target(log[c].before[1])
                   /\ log[c].after[1].name = armsoc_bo_name(log[c].after[1].bo)
              ELSE log[c].allocs = 1

C11_Witness ==
    \E c \in CmdIds :
        /\ Done(c) /\ log[c].advanced = 1 /\ log[c].allocs = 0
        /\ cfg.driNumBufs = 4
        /\ log[c].before[1].currentPixmap = 2
        /\ log[c].after[1].currentPixmap = 0
        /\ log[c].after[1].numPixmaps = 3

\* C12: every live record has 1 <= numPixmaps and currentPixmap <
\* numPixmaps; a record starts at slot 0 with numPixmaps = driNumBufs - 1 for
\* a BackLeft record of a chain of more than two buffers and 1 otherwise, and
\* numPixmaps never increases while the record lives (so currentPixmap stays
\* below any value numPixmaps has shrunk to)
C12_RingBounds ==
    /\ [](\A b \in BufIds : bufs[b].state = "live" =>
              /\ 1 <= bufs[b].numPixmaps
              /\ bufs[b].currentPixmap >= 0
              /\ bufs[b].currentPixmap < bufs[b].numPixmaps
              /\ bufs[b].numPixmaps <=
                     (IF bufs[b].attachment = "BackLeft" /\ cfg.driNumBufs > 2
                      THEN cfg.driNumBufs - 1 ELSE 1))
    /\ [][\A b \in BufIds :
              /\ (bufs[b].state = "none" /\ bufs'[b].state = "live") =>
                    /\ bufs'[b].currentPixmap = 0
                    /\ bufs'[b].numPixmaps =
                         (IF bufs'[b].attachment = "BackLeft" /\ cfg.driNumBufs > 2
                          THEN cfg.driNumBufs - 1 ELSE 1)
              /\ (bufs[b].state = "live" /\ bufs'[b].state = "live") =>
                    bufs'[b].numPixmaps <= bufs[b].numPixmaps]_vars

C12_Witness ==
    \E b \in BackBufs :
        /\ cfg.driNumBufs = 4 /\ bufs[b].numPixmaps = 2
        /\ bufs[b].advances = 3 /\ bufs[b].currentPixmap = 0

\* canflip(pDraw) in the current state
CanFlip == canflip(St)

\* the bo ReuseBufferNotify looks at has a framebuffer
HasFb(b) == bo[pix[bufs[b].pPixmaps[0]].bo].fb

\* C13: a BackLeft record created while the drawable cannot flip has
\* attempted_fb_alloc = FALSE, and no attach was attempted for it; a
\* ReuseBufferNotify while the drawable can flip makes exactly one attach
\* attempt and sets attempted_fb_alloc, whatever the attempt's result, if
\* the flag was not set and no framebuffer is attached, and makes no
\* attempt and leaves the flag otherwise; so no more than one attempt is
\* made while the drawable stays able to flip
C13_AttachOncePerMap ==
    /\ [](\A b \in BackBufs :
              /\ seen[b].attaches <= 1
              /\ seen[b].attaches = 1 => bufs[b].attempted_fb_alloc)
    /\ [][\A b \in BufIds :
              /\ ( /\ bufs[b].state = "none" /\ bufs'[b].state = "live"
                   /\ bufs'[b].attachment = "BackLeft"
                   /\ ~CanFlip ) =>
                     /\ ~bufs'[b].attempted_fb_alloc
                     /\ seen'[b].attaches = 0
                     /\ ~bo'[pix'[bufs'[b].pPixmaps[0]].bo].fb
              /\ ( /\ b \in BackBufs /\ CanFlip
                   /\ seen'[b].reuses = seen[b].reuses + 1 ) =>
                     IF ~bufs[b].attempted_fb_alloc /\ ~HasFb(b)
                     THEN /\ seen'[b].attaches = seen[b].attaches + 1
                          /\ bufs'[b].attempted_fb_alloc
                     ELSE /\ seen'[b].attaches = seen[b].attaches
                          /\ bufs'[b].attempted_fb_alloc = bufs[b].attempted_fb_alloc
         ]_vars

C13_Witness ==
    \E b \in BackBufs :
        /\ CanFlip /\ seen[b].reuses = 2 /\ seen[b].attaches = 1
        /\ bufs[b].attempted_fb_alloc /\ ~HasFb(b)

\* C14 (as stated): in every period in which the drawable can flip, a
\* ReuseBufferNotify for a BackLeft record without a framebuffer comes with
\* an attach attempt made in that period, also when the attempt of an
\* earlier period failed
C14_FreshAttemptEachMap ==
    \A b \in BackBufs :
        (CanFlip /\ seen[b].reuses >= 1 /\ ~HasFb(b)) => seen[b].attaches >= 1

\* C15: pending_flips is the number of commands scheduled and not yet
\* completed, and never negative; once the wait loop of CloseScreen is left
\* and DRI2CloseScreen called, it is 0, no command is left, no event is
\* owed, and every remaining reference on a buffer record is the core's
C15_CounterIsCommandsInFlight ==
    /\ pending_flips = Cardinality({ c \in CmdIds : Live(c) })
    /\ pending_flips >= 0
    /\ screen = "waiting" => pending_flips > 0
    /\ screen = "closed" =>
          /\ pending_flips = 0
          /\ \A c \in CmdIds : ~Live(c) /\ evts[c] = 0
          /\ \A b \in BufIds :
                bufs[b].state = "live" => b \in coreBufs /\ bufs[b].refcnt = 1

C15_Witness ==
    /\ screen = "closed"
    /\ \E c \in CmdIds :
          /\ Done(c) /\ log[c].bodyAt = 2
          /\ log[c].flipsBefore = 1 /\ log[c].flipsAfter = 0

\* C16: if every owed flip event is delivered, every command in flight is
\* eventually completed and freed, pending_flips eventually returns to 0,
\* and the wait loop of CloseScreen is eventually left
C16_EveryCommandCompletes ==
    /\ \A c \in CmdIds : (cmds[c].state = "live") ~> (cmds[c].state = "freed")
    /\ (pending_flips > 0) ~> (pending_flips = 0)
    /\ (screen = "waiting") ~> (screen = "closed")

C16_Witness ==
    /\ screen = "closed"
    /\ \E c \in CmdIds :
          /\ Done(c) /\ log[c].issued /\ log[c].ret = -2
          /\ log[c].bodyAt = 1 /\ cfg.use_page_flip_events

\* C17: a CreateBuffer that returns NULL leaves the pixmaps, the bos in
\* use, the reference count of the drawable's own pixmap and the buffer
\* records as they were before the call
C17_FailedCreateLeavesNothing ==
    [][result'.ret = "NULL" =>
          /\ pix' = pix
          /\ \A b \in PixIds :
                /\ bo'[b].ref > 0 <=> bo[b].ref > 0
                /\ bo[b].ref > 0 => bo'[b] = bo[b]
          /\ nextPix' = nextPix
          /\ bufs' = bufs
          /\ nextBuf' = nextBuf
          /\ coreBufs' = coreBufs]_vars

C17_Witness ==
    /\ result.ret = "NULL" /\ result.attachment = "FrontLeft"
    /\ result.outcome = "nobo"
    /\ pix[WinPix].refcnt = 1

\* C18: the assert of nextBuffer never fails; when the allocation for the
\* slot a ring advances to fails, that slot is not slot 0, currentPixmap is
\* back at the slot it had before, numPixmaps is currentPixmap + 1, the
\* ring holds the pixmaps it held, and the record's name is the name of the
\* bo behind the current slot; a ring that lost slots has all the slots it
\* kept allocated, so later advances allocate nothing
C18_FailedAdvanceRollsBack ==
    /\ fault # "assert"
    /\ \A c \in CmdIds :
          ( /\ Done(c) /\ log[c].advanced = 1 /\ cfg.driNumBufs > 2
            /\ log[c].allocs = 1
            /\ log[c].after[1].pPixmaps[Target(log[c].before[1])] = 0 ) =>
              /\ Target(log[c].before[1]) # 0
              /\ log[c].after[1].currentPixmap = log[c].before[1].currentPixmap
              /\ log[c].after[1].numPixmaps = log[c].before[1].currentPixmap + 1
              /\ log[c].after[1].pPixmaps = log[c].before[1].pPixmaps
              /\ log[c].after[1].name = armsoc_bo_name(log[c].after[1].bo)
    /\ \A b \in BackBufs :
          (cfg.driNumBufs > 2 /\ bufs[b].numPixmaps < cfg.driNumBufs - 1) =>
              \A i \in 0..(cfg.driNumBufs - 2) :
                  bufs[b].pPixmaps[i] # 0 <=> i < bufs[b].numPixmaps

C18_Witness ==
    \E c \in CmdIds :
        /\ Done(c) /\ log[c].advanced = 1 /\ log[c].allocs = 1
        /\ cfg.driNumBufs = 4
        /\ log[c].before[1].currentPixmap = 1
        /\ log[c].before[1].numPixmaps = 3
        /\ log[c].after[1].currentPixmap = 1
        /\ log[c].after[1].numPixmaps = 2

\* the command completed as a real flip: issued, neither synthetic nor
\* failed, its drawable found
RealFlipDone(c) ==
    Done(c) /\ log[c].issued /\ log[c].ret > 0 /\ log[c].lookup = "found"

\* the ring of a record, as a snapshot keeps it
Ring(snap) == << snap.currentPixmap, snap.numPixmaps, snap.pPixmaps >>

\* C19: the completion of a command that is not a real flip (a blit, a
\* synthetic or failed flip, a flip whose drawable is gone), or of any
\* command under double buffering, leaves the rings of both records as
\* they were and creates no pixmap; a ring is advanced only in a step in
\* which a real flip completes in a chain of more than two buffers
C19_AdvanceOnlyOnRealFlip ==
    /\ [](\A c \in CmdIds :
              (Done(c) /\ (~RealFlipDone(c) \/ cfg.driNumBufs <= 2)) =>
                  /\ Ring(log[c].after[1]) = Ring(log[c].before[1])
                  /\ Ring(log[c].after[2]) = Ring(log[c].before[2])
                  /\ log[c].allocs = 0)
    /\ [][\A b \in BufIds :
              ( /\ bufs[b].state = "live" /\ bufs'[b].state = "live"
                /\ \/ bufs'[b].advances # bufs[b].advances
                   \/ bufs'[b].currentPixmap # bufs[b].currentPixmap
                   \/ bufs'[b].numPixmaps # bufs[b].numPixmaps ) =>
                  /\ cfg.driNumBufs > 2
                  /\ bufs[b].attachment = "BackLeft"
                  /\ \E c \in CmdIds :
                        /\ cmds[c].state # "freed" /\ cmds'[c].state = "freed"
                        /\ log'[c].kind = "FLIP"
                        /\ log'[c].issued /\ log'[c].ret > 0
                        /\ log'[c].lookup = "found" /\ log'[c].advanced = 1
         ]_vars

C19_Witness ==
    \E c \in CmdIds :
        /\ Done(c) /\ log[c].issued /\ log[c].ret > 0 /\ log[c].bodyAt > 0
        /\ log[c].lookup = "gone" /\ cfg.driNumBufs = 3
        /\ log[c].after = log[c].before /\ log[c].allocs = 0

\* C20 (as stated): a real flip whose drawable is gone at completion skips
\* the exchange and the notification, and still publishes the destination
\* bo as scanout, releases the references and decrements pending_flips
C20_GonePublishes ==
    \A c \in CmdIds :
        (Done(c) /\ log[c].issued /\ log[c].ret > 0 /\ log[c].lookup = "gone") =>
            /\ log[c].exchanged = 0
            /\ log[c].notified = 0
            /\ log[c].published = 1
            /\ log[c].released = 2
            /\ log[c].flipsAfter = log[c].flipsBefore - 1

\* C20 (amended): a real flip whose drawable is gone at completion skips
\* the exchange, the notification and the scanout publish, releases the
\* references and decrements pending_flips; the scanout is published,
\* with the bo of the destination record after the exchange, exactly when
\* a real flip completes with its drawable found
C20_GoneSkipsPublish ==
    \A c \in CmdIds :
        /\ (Done(c) /\ log[c].issued /\ log[c].ret > 0 /\ log[c].lookup = "gone") =>
              /\ log[c].exchanged = 0
              /\ log[c].notified = 0
              /\ log[c].published = 0
              /\ log[c].scanout = 0
              /\ log[c].released = 2
              /\ log[c].flipsAfter = log[c].flipsBefore - 1
        /\ Done(c) =>
              /\ log[c].published = IF RealFlipDone(c) THEN 1 ELSE 0
              /\ RealFlipDone(c) => log[c].scanout = log[c].after[2].bo

C20_Witness ==
    \E c \in CmdIds :
        /\ Done(c) /\ log[c].issued /\ log[c].ret = 1 /\ log[c].bodyAt = 1
        /\ log[c].lookup = "gone" /\ log[c].published = 0
        /\ log[c].released = 2

\* C21 (as stated): the two bos a completion unreferences are the two bos
\* ScheduleSwap referenced for the command, also when the command was
\* scheduled while an earlier one was in flight; so no bo is unreferenced
\* below zero, a bo behind a live pixmap is referenced, and with no command
\* in flight every bo in use is held by exactly its pixmap
C21_BoRefsBalanced ==
    /\ \A c \in CmdIds :
          Done(c) =>
              {log[c].unrefd[1], log[c].unrefd[2]} = {log[c].refd[1], log[c].refd[2]}
    /\ \A b \in PixIds : bo[b].ref >= 0
    /\ \A p \in PixIds : pix[p].state = "live" => bo[pix[p].bo].ref > 0
    /\ (\A c \in CmdIds : ~Live(c)) =>
          \A b \in PixIds :
              bo[b].ref = Cardinality({p \in PixIds : pix[p].state = "live" /\ pix[p].bo = b})

C21_Witness ==
    \E c \in CmdIds :
        /\ Done(c) /\ log[c].issued /\ log[c].ret > 0 /\ log[c].lookup = "found"
        /\ log[c].flipsAtSched > 0 /\ cfg.driNumBufs = 3
        /\ log[c].unrefd[1] # log[c].refd[1]
        /\ log[c].unrefd[1] # log[c].refd[2]

\* C22 (as stated): the name of every live record is the name of the bo
\* behind the pixmap in its current slot
C22_NameIsCurrentBo ==
    \A b \in BufIds :
        bufs[b].state = "live" =>
            bufs[b].name =
                armsoc_bo_name(ARMSOCPixmapBo(St, bufs[b].pPixmaps[bufs[b].currentPixmap]))

C22_Witness ==
    \E c \in CmdIds, f \in BufIds :
        /\ Done(c) /\ log[c].exchanged = 1 /\ log[c].advanced = 1
        /\ bufs[f].state = "live" /\ bufs[f].attachment = "FrontLeft"
        /\ f \in coreBufs /\ bufs[f].refcnt > 1
        /\ bufs[f].name # armsoc_bo_name(ARMSOCPixmapBo(St, bufs[f].pPixmaps[0]))

\* the records that are live
LiveBufs == {b \in BufIds : bufs[b].state = "live"}

\* the slots of a record's ring that hold a pixmap
Filled(b) == {i \in DOMAIN bufs[b].pPixmaps : bufs[b].pPixmaps[i] # 0}

\* C23: the ring of a live record has as many entries as the loop of
\* DestroyBuffer may visit; its filled slots are the slots 0..k-1 for some
\* k >= 1, currentPixmap is one of them and none is at numPixmaps or above;
\* each filled slot holds a live pixmap, a pixmap other than the window's
\* is held once, by one slot of one live record, and the window's pixmap
\* is referenced once by each live FrontLeft record: so the loop over
\* slots 0.. up to the first empty one releases every pixmap of the ring
\* once, and a record that is freed leaves no pixmap behind
C23_RingIsPrefix ==
    /\ \A b \in LiveBufs :
          /\ DOMAIN bufs[b].pPixmaps =
                 0..(NumBuffers(bufs[b].attachment, cfg.driNumBufs) - 1)
          /\ \E k \in 1..bufs[b].numPixmaps : Filled(b) = 0..(k - 1)
          /\ bufs[b].currentPixmap \in Filled(b)
          /\ \A i \in Filled(b) : pix[bufs[b].pPixmaps[i]].state = "live"
    /\ \A p \in PixIds \ {WinPix} :
          pix[p].state = "live" =>
              /\ pix[p].refcnt = 1
              /\ Cardinality({ << b, i >> \in LiveBufs \X (0..MaxPix) :
                                 i \in Filled(b) /\ bufs[b].pPixmaps[i] = p }) = 1
    /\ pix[WinPix].state = "live"
    /\ pix[WinPix].refcnt =
           1 + Cardinality({b \in LiveBufs : bufs[b].attachment = "FrontLeft"})

\* a degraded ring with two filled slots was destroyed at a completion
C23_Witness ==
    \E c \in CmdIds :
        /\ Done(c) /\ cfg.driNumBufs = 4
        /\ log[c].before[1].numPixmaps = 2
        /\ log[c].before[1].pPixmaps[1] # 0
        /\ log[c].before[1].pPixmaps[2] = 0
        /\ log[c].freedAtDone # {}
        /\ BackBufs = {}

====
